---- MODULE Spec2Model ----
(***************************************************************************)
(* Model of github.com/Soreing/trace: the traceparent header codec         *)
(* (EncodeTraceparent / DecodeTraceparent, core.go) and the TraceCore      *)
(* dispatch coordinator (NewTraceCore, DispatchSpan, Close, core.go;       *)
(* newConfiguration and the options, options.go).                          *)
(*                                                                         *)
(* A Go string is a sequence of bytes; a byte is a number in 0..255 and a  *)
(* header is a TLA+ sequence of bytes.  Go indexes from 0, TLA+ from 1:    *)
(* Go's header[k] is header[k+1] here.                                     *)
(***************************************************************************)
EXTENDS Integers, Sequences, FiniteSets, TLC

VARIABLES
    pc,        \* codec caller: "start", "encoded", "received", "decoded"
    args,      \* arguments of the last EncodeTraceparent call, or NoArgs
    header,    \* the header string in hand (encoded, or taken off the wire)
    res,       \* what the last DecodeTraceparent call returned, or NoRes
    newCall,   \* the NewTraceCore call made: its arguments, or NoCall
    trc,       \* the *TraceCore NewTraceCore returned, or NilCore
    newErr,    \* the error NewTraceCore returned: Nil, or ErrConfigure
    made,      \* the collectors motel.NewSpanCollector has constructed, in order
    log,       \* the calls the collector has received (Feed / Close), in order
    cpc,       \* cpc[c]: the TraceCore method caller c is inside, or "idle"
    hist       \* the calls to and returns from DispatchSpan and Close, in order

vars == <<pc, args, header, res, newCall, trc, newErr, made, log, cpc, hist>>

Byte == 0..255
Nil == "nil"
\* the nil *TraceCore: it has no collector (collectors are numbered from 1)
NilCore == [collector |-> 0, exporters |-> <<>>, rand |-> Nil]
\* before any call: no arguments, no result
NoArgs == [ver |-> -1, tid |-> <<>>, pid |-> <<>>, flg |-> -1]
NoRes == [ver |-> -1, tid |-> <<>>, pid |-> <<>>, flg |-> -1, err |-> "not called"]

---------------------------------------------------------------------------
(* Program constants of the codec.                                         *)

HeaderLen == 55
TidLen == 16
PidLen == 8
Dash == 45
Char0 == 48
CharW == 87

Zeros(n) == [i \in 1..n |-> 0]

---------------------------------------------------------------------------
(* EncodeTraceparent, core.go 86-94.                                       *)

\* encoding/hex's table "0123456789abcdef", as bytes
hextable == <<48, 49, 50, 51, 52, 53, 54, 55, 56, 57, 97, 98, 99, 100, 101, 102>>

\* a plausible slip: the upper-case table
HexEncodeUpper(src) ==
    LET up == <<48, 49, 50, 51, 52, 53, 54, 55, 56, 57, 65, 66, 67, 68, 69, 70>>
    IN [j \in 1..(2 * Len(src)) |->
          IF j % 2 = 1 THEN up[(src[(j + 1) \div 2] \div 16) + 1]
                       ELSE up[(src[j \div 2] % 16) + 1]]

\* a plausible slip: low nibble first
HexEncodeSwapped(src) ==
    [j \in 1..(2 * Len(src)) |->
        IF j % 2 = 1 THEN hextable[(src[(j + 1) \div 2] % 16) + 1]
                     ELSE hextable[(src[j \div 2] \div 16) + 1]]

\* hex.Encode(dst, src): dst[2i] = hextable[v>>4], dst[2i+1] = hextable[v&0x0f]
HexEncode(src) ==
    [j \in 1..(2 * Len(src)) |->
        IF j % 2 = 1 THEN hextable[(src[(j + 1) \div 2] \div 16) + 1]
                     ELSE hextable[(src[j \div 2] % 16) + 1]]

\* writing s into buf at Go offset off (the slice buf[off:off+len(s)])
Put(buf, off, s) ==
    [i \in 1..Len(buf) |->
        IF i > off /\ i <= off + Len(s) THEN s[i - off] ELSE buf[i]]

EncodeTraceparent(ver, tid, pid, flg) ==
    LET h0 == Zeros(HeaderLen)
        h1 == [h0 EXCEPT ![3] = Dash, ![36] = Dash, ![53] = Dash]
        h2 == Put(h1, 0, HexEncode(<<ver>>))
        h3 == Put(h2, 3, HexEncode(tid))
        h4 == Put(h3, 36, HexEncode(pid))
    IN Put(h4, 53, HexEncode(<<flg>>))

---------------------------------------------------------------------------
(* DecodeTraceparent, core.go 98-185.                                      *)

NoErr == "nil"
ErrLength == "invalid length"
ErrFormat == "invalid format"
ErrVersion == "invalid version"
ErrFlag == "invalid flag"
ErrTraceId == "invalid trace id"
ErrParentId == "invalid parent id"

BadNibble == 256

\* uint8 subtraction wraps around
Sub8(a, b) == (a - b + 256) % 256

\* a plausible slip: the lower bound of the letter range is not checked, so the
\* ten bytes 'W'..'`' pass as the digits 0..9
NibbleNoLowerBound(c) ==
    LET d == Sub8(c, Char0)
    IN IF d > 9
       THEN LET e == Sub8(c, CharW) IN IF e > 15 THEN BadNibble ELSE e
       ELSE d

\* a plausible slip: upper-case letters are accepted as well
NibbleAnyCase(c) ==
    LET d == Sub8(c, Char0)
    IN IF d > 9
       THEN LET e == Sub8(c, CharW)
            IN IF e > 15 \/ e < 10
               THEN (IF c \in 65..70 THEN c - 55 ELSE BadNibble)
               ELSE e
       ELSE d

\* if d = c - '0'; d > 9 { if d = c - 'W'; d > 15 || d < 10 { error } }
Nibble(c) ==
    LET d == Sub8(c, Char0)
    IN IF d > 9
       THEN LET e == Sub8(c, CharW)
            IN IF e > 15 \/ e < 10 THEN BadNibble ELSE e
       ELSE d

\* a plausible slip: the checksum kept in a byte
AddValByte(val, b) == (val + b) % 256

\* val += int(tid[i]): val is a Go int
AddVal(val, b) == val + b

\* a plausible slip: the third dash is not looked at
DashOkFirstTwo(h) == h[3] = Dash /\ h[36] = Dash

\* header[2] != '-' || header[35] != '-' || header[52] != '-'
DashOk(h) == h[3] = Dash /\ h[36] = Dash /\ h[53] = Dash

\* The loop over an id: n bytes, two characters each, starting at Go offset
\* off.  id and val are what the loop has written so far; an invalid
\* character returns from the function with them as they are.
RECURSIVE DecodeId(_, _, _, _, _, _)
DecodeId(h, off, n, i, id, val) ==
    IF i = n
    THEN [ok |-> TRUE, id |-> id, val |-> val]
    ELSE LET d1 == Nibble(h[off + 2 * i + 1])
             d2 == Nibble(h[off + 2 * i + 2])
         IN IF d1 = BadNibble \/ d2 = BadNibble
            THEN [ok |-> FALSE, id |-> id, val |-> val]
            ELSE LET b == ((d1 * 16) + d2) % 256
                 IN DecodeId(h, off, n, i + 1, [id EXCEPT ![i + 1] = b], AddVal(val, b))

\* The named results (ver, tid, pid, flg, err) as the bare return leaves them.
DecodeTraceparent(h) ==
    LET zero == [ver |-> 0, tid |-> Zeros(TidLen), pid |-> Zeros(PidLen),
                 flg |-> 0, err |-> NoErr]
    IN IF Len(h) # HeaderLen THEN [zero EXCEPT !.err = ErrLength]
       ELSE IF ~DashOk(h) THEN [zero EXCEPT !.err = ErrFormat]
       ELSE IF SubSeq(h, 1, 2) # <<48, 48>> THEN [zero EXCEPT !.err = ErrVersion]
       ELSE IF SubSeq(h, 54, 55) \notin {<<48, 48>>, <<48, 49>>}
            THEN [zero EXCEPT !.err = ErrFlag]
       ELSE
         LET f == IF SubSeq(h, 54, 55) = <<48, 49>> THEN 1 ELSE 0
             t == DecodeId(h, 3, TidLen, 0, Zeros(TidLen), 0)
             r1 == [zero EXCEPT !.flg = f, !.tid = t.id]
         IN IF ~t.ok \/ t.val = 0 THEN [r1 EXCEPT !.err = ErrTraceId]
            ELSE
              LET p == DecodeId(h, 36, PidLen, 0, Zeros(PidLen), 0)
                  r2 == [r1 EXCEPT !.pid = p.id]
              IN IF ~p.ok \/ p.val = 0 THEN [r2 EXCEPT !.err = ErrParentId]
                 ELSE r2

---------------------------------------------------------------------------
(* The inputs the codec is run on.                                         *)

\* MaxStride bounds the family of sample ids: id[i] = (b + k*i) mod 256 for
\* every byte b and every stride k in 0..MaxStride.  Stride 0 holds the
\* all-zero id, the all-0x10 id (byte sum 256) and the all-0xff id.
MaxStride == 2

Ramp(n, b, k) == [i \in 1..n |-> (b + k * (i - 1)) % 256]
Unit(n, p, v) == [i \in 1..n |-> IF i = p THEN v ELSE 0]

Ramps(n) == {Ramp(n, b, k) : b \in Byte, k \in 0..MaxStride}
Units(n) == {Unit(n, p, v) : p \in 1..n, v \in {1, 16, 128, 255}}
Few(n) == {Ramp(n, 0, 0), Ramp(n, 1, 1), Ramp(n, 16, 0), Ramp(n, 32, 0), Ramp(n, 255, 0)}

Args(ver, tid, pid, flg) == [ver |-> ver, tid |-> tid, pid |-> pid, flg |-> flg]

\* What EncodeTraceparent is called with: every version byte and every flags
\* byte, and every sample id in either position.
EncodeArgs ==
    {Args(v, Ramp(TidLen, 1, 1), Ramp(PidLen, 1, 1), f) : v \in Byte, f \in {0, 1, 2, 255}}
    \cup {Args(v, Ramp(TidLen, 1, 1), Ramp(PidLen, 1, 1), f) : v \in {0, 1, 255}, f \in Byte}
    \cup {Args(0, t, p, f) : t \in Ramps(TidLen) \cup Units(TidLen), p \in Few(PidLen), f \in {0, 1}}
    \cup {Args(0, t, p, f) : t \in Few(TidLen), p \in Ramps(PidLen) \cup Units(PidLen), f \in {0, 1}}
    \cup {Args(v, Zeros(TidLen), Zeros(PidLen), f) : v \in {0, 1, 255}, f \in {0, 2, 255}}

\* Headers taken off the wire.  Composed: every combination of a version
\* field, three separators, a trace-id field, a parent-id field and a flags
\* field, each well-formed or malformed in one of several ways (wrong
\* characters, upper case, all zero, one character short or long).
VerFields == {<<48, 48>>, <<48, 49>>, <<102, 102>>, <<48>>, <<48, 48, 48>>}
FlagFields == {<<48, 48>>, <<48, 49>>, <<48, 50>>, <<102, 102>>, <<48>>, <<48, 48, 49>>}
Separators == {Dash, 95}
IdFields(n) ==
    LET good == HexEncode(Ramp(n, 171, 1))        \* "abacad..."
    IN {HexEncode(id) : id \in Few(n)}
       \cup {HexEncodeUpper(Ramp(n, 171, 1))}     \* "ABACAD..."
       \cup {[good EXCEPT ![1] = 103]}            \* 'g' first
       \cup {[good EXCEPT ![2 * n] = CharW]}      \* 'W' last
       \cup {SubSeq(good, 1, 2 * n - 1)}          \* one short
       \cup {good \o <<48>>}                      \* one long

Composed ==
    {v \o <<d1>> \o t \o <<d2>> \o p \o <<d3>> \o f :
        v \in VerFields, d1 \in Separators, t \in IdFields(TidLen),
        d2 \in Separators, p \in IdFields(PidLen), d3 \in Separators,
        f \in FlagFields}

\* Swept: a header with every byte value in turn at every position.
SweepBases ==
    {EncodeTraceparent(0, Ramp(TidLen, 1, 1), Ramp(PidLen, 1, 1), 1),
     EncodeTraceparent(0, Ramp(TidLen, 0, 0), Ramp(PidLen, 171, 1), 0),
     EncodeTraceparent(0, Ramp(TidLen, 171, 1), Ramp(PidLen, 0, 0), 0)}
Swept == {[b EXCEPT ![i] = c] : b \in SweepBases, i \in 1..HeaderLen, c \in Byte}

\* Prefixes: every length from 0 to one more than a header's.
Prefixes ==
    LET long == EncodeTraceparent(0, Ramp(TidLen, 1, 1), Ramp(PidLen, 1, 1), 1) \o <<48>>
    IN {SubSeq(long, 1, n) : n \in 0..(HeaderLen + 1)}

WireHeaders == Composed \cup Swept \cup Prefixes

---------------------------------------------------------------------------
(* The codec's caller.                                                     *)

\* header := EncodeTraceparent(ver, tid, pid, flg)
CallEncode ==
    /\ pc = "start"
    /\ \E a \in EncodeArgs :
          /\ args' = a
          /\ header' = EncodeTraceparent(a.ver, a.tid, a.pid, a.flg)
    /\ pc' = "encoded"
    /\ UNCHANGED <<res, newCall, trc, newErr, made, log, cpc, hist>>

\* the header parameter of DecodeTraceparent comes from the wire
Receive ==
    /\ pc = "start"
    /\ \E h \in WireHeaders : header' = h
    /\ pc' = "received"
    /\ UNCHANGED <<args, res, newCall, trc, newErr, made, log, cpc, hist>>

\* ver, tid, pid, flg, err := DecodeTraceparent(header)
CallDecode ==
    /\ pc \in {"encoded", "received"}
    /\ res' = DecodeTraceparent(header)
    /\ pc' = "decoded"
    /\ UNCHANGED <<args, header, newCall, trc, newErr, made, log, cpc, hist>>

---------------------------------------------------------------------------
(* newConfiguration and the options, options.go.                           *)

\* MaxOpts bounds the number of options passed to NewTraceCore.
MaxOpts == 2

\* UseRandomizer(rand): rand may be nil.  UseBatching(maxTime, maxCount).
UseRandomizer(r) == [kind |-> "rand", rand |-> r, batchTime |-> 0, batchCount |-> 0]
UseBatching(t, n) == [kind |-> "batch", rand |-> Nil, batchTime |-> t, batchCount |-> n]

Options ==
    {UseRandomizer(r) : r \in {Nil, "r1", "r2"}}
    \cup {UseBatching(t, n) : t \in {0, 5}, n \in {0, 10}}

\* randOption.Configure, batchOption.Configure
Configure(cfg, opt) ==
    IF opt.kind = "rand"
    THEN [cfg EXCEPT !.rand = opt.rand]
    ELSE [cfg EXCEPT !.batchTime = opt.batchTime, !.batchCount = opt.batchCount]

\* for _, opt := range opts { opt.Configure(cfg) }
RECURSIVE ApplyOptions(_, _)
ApplyOptions(cfg, opts) ==
    IF opts = <<>> THEN cfg
    ELSE ApplyOptions(Configure(cfg, Head(opts)), Tail(opts))

ErrSource == "source error"
ErrConfigure == "failed to configure: source error"

\* newConfiguration(opts); sourceOk is whether grand.NewSource() succeeds
newConfiguration(opts, sourceOk) ==
    LET cfg == ApplyOptions([rand |-> Nil, batchTime |-> 0, batchCount |-> 0], opts)
    IN IF cfg.rand = Nil
       THEN IF ~sourceOk
            THEN [cfg |-> Nil, err |-> ErrSource]
            ELSE [cfg |-> [cfg EXCEPT !.rand = "grand"], err |-> Nil]
       ELSE [cfg |-> cfg, err |-> Nil]

---------------------------------------------------------------------------
(* The TraceCore coordinator, core.go 16-70.                               *)

Callers == {"a", "b"}

\* MaxCalls bounds the number of DispatchSpan and Close calls of one caller.
MaxCalls == 2

NoCall == [exporters |-> <<>>, opts |-> <<>>, sourceOk |-> TRUE, called |-> FALSE]

ExporterLists == {<<>>, <<"e1">>, <<"e1", "e2">>}

RECURSIVE SeqsUpTo(_, _)
SeqsUpTo(S, n) ==
    IF n = 0 THEN {<<>>}
    ELSE LET shorter == SeqsUpTo(S, n - 1)
         IN shorter \cup {Append(q, x) : q \in shorter, x \in S}

\* a plausible slip: the collector built before the configuration is checked
NewTraceCoreEager(exporters, opts, sourceOk) ==
    LET c == newConfiguration(opts, sourceOk)
        sc == [exporters |-> exporters, batchTime |-> 0, batchCount |-> 0]
    IN IF c.err # Nil
       THEN [trc |-> NilCore, err |-> ErrConfigure, made |-> <<sc>>]
       ELSE [trc |-> [collector |-> 1, exporters |-> exporters, rand |-> c.cfg.rand],
             err |-> Nil,
             made |-> <<[exporters |-> exporters, batchTime |-> c.cfg.batchTime,
                         batchCount |-> c.cfg.batchCount]>>]

\* NewTraceCore(exporters, opts...): what it returns and the collectors it
\* has motel.NewSpanCollector construct
NewTraceCore(exporters, opts, sourceOk) ==
    LET c == newConfiguration(opts, sourceOk)
    IN IF c.err # Nil
       THEN [trc |-> NilCore, err |-> ErrConfigure, made |-> <<>>]
       ELSE [trc |-> [collector |-> 1, exporters |-> exporters, rand |-> c.cfg.rand],
             err |-> Nil,
             made |-> <<[exporters |-> exporters, batchTime |-> c.cfg.batchTime,
                         batchCount |-> c.cfg.batchCount]>>]

\* a plausible slip: the span is not handed on
DispatchSpanDropped(lg, t, id) == lg

\* a plausible slip: a closed flag that turns later spans away
DispatchSpanGuarded(lg, t, id) ==
    IF \E j \in 1..Len(lg) : lg[j].op = "Close"
    THEN lg
    ELSE Append(lg, [op |-> "Feed", collector |-> t.collector, id |-> id])

\* trc.DispatchSpan(span): trc.collector.Feed(span).  The span is named by
\* the call that dispatches it, id = <<caller, number of the call>>.
DispatchSpan(lg, t, id) ==
    Append(lg, [op |-> "Feed", collector |-> t.collector, id |-> id])

\* trc.Close(): trc.collector.Close()
Close(lg, t, id) ==
    Append(lg, [op |-> "Close", collector |-> t.collector, id |-> id])

CallsOf(c) == Cardinality({i \in 1..Len(hist) : hist[i].ev = "call" /\ hist[i].id[1] = c})

\* trc, err := NewTraceCore(exporters, opts...), for a choice of exporters and
\* options among those given; grand.NewSource() succeeds or fails
New(exporterLists, optLists) ==
    /\ ~newCall.called
    /\ \E ex \in exporterLists, opts \in optLists, ok \in BOOLEAN :
          LET r == NewTraceCore(ex, opts, ok)
          IN /\ newCall' = [exporters |-> ex, opts |-> opts, sourceOk |-> ok,
                            called |-> TRUE]
             /\ trc' = r.trc
             /\ newErr' = r.err
             /\ made' = made \o r.made
    /\ UNCHANGED <<pc, args, header, res, log, cpc, hist>>

\* every exporter list with every list of up to MaxOpts options
CallNew == New(ExporterLists, SeqsUpTo(Options, MaxOpts))

\* the constructions the dispatching callers run on: no option, or both
CallNewForDispatch ==
    New({<<"e1", "e2">>}, {<<>>, <<UseRandomizer("r1"), UseBatching(5, 10)>>})

\* caller c enters DispatchSpan or Close
Enter(c) ==
    /\ trc # NilCore
    /\ cpc[c] = "idle"
    /\ CallsOf(c) < MaxCalls
    /\ \E op \in {"DispatchSpan", "Close"} :
          /\ cpc' = [cpc EXCEPT ![c] = op]
          /\ hist' = Append(hist, [ev |-> "call", op |-> op, id |-> <<c, CallsOf(c) + 1>>])
    /\ UNCHANGED <<pc, args, header, res, newCall, trc, newErr, made, log>>

\* the body of DispatchSpan runs and the call returns
RunDispatchSpan(c) ==
    /\ cpc[c] = "DispatchSpan"
    /\ log' = DispatchSpan(log, trc, <<c, CallsOf(c)>>)
    /\ hist' = Append(hist, [ev |-> "ret", op |-> "DispatchSpan", id |-> <<c, CallsOf(c)>>])
    /\ cpc' = [cpc EXCEPT ![c] = "idle"]
    /\ UNCHANGED <<pc, args, header, res, newCall, trc, newErr, made>>

\* the body of Close runs and the call returns
RunClose(c) ==
    /\ cpc[c] = "Close"
    /\ log' = Close(log, trc, <<c, CallsOf(c)>>)
    /\ hist' = Append(hist, [ev |-> "ret", op |-> "Close", id |-> <<c, CallsOf(c)>>])
    /\ cpc' = [cpc EXCEPT ![c] = "idle"]
    /\ UNCHANGED <<pc, args, header, res, newCall, trc, newErr, made>>

CodecInit ==
    /\ pc = "start"
    /\ args = NoArgs
    /\ header = <<>>
    /\ res = NoRes

CoreIdle ==
    /\ newCall = NoCall
    /\ trc = NilCore
    /\ newErr = Nil
    /\ made = <<>>
    /\ log = <<>>
    /\ cpc = [c \in Callers |-> "idle"]
    /\ hist = <<>>

Init == CodecInit /\ CoreIdle

Next == CallEncode \/ Receive \/ CallDecode

Spec == Init /\ [][Next]_vars

NextNew == CallNew

SpecNew == Init /\ [][NextNew]_vars

NextCore ==
    \/ CallNewForDispatch
    \/ \E c \in Callers : Enter(c)
    \/ \E c \in Callers : RunDispatchSpan(c)
    \/ \E c \in Callers : RunClose(c)

SpecCore == Init /\ [][NextCore]_vars

---------------------------------------------------------------------------
(* What the claims about the codec are stated with: the lower-case hex     *)
(* alphabet and the header layout, written down independently of the code. *)

IsHex(c) == c \in 48..57 \/ c \in 97..102
HexVal(c) == IF c \in 48..57 THEN c - 48 ELSE c - 97 + 10
IsHexOf(c, n) == IsHex(c) /\ HexVal(c) = n

\* the byte written at characters i, i+1 of h
ByteAt(h, i) == 16 * HexVal(h[i]) + HexVal(h[i + 1])
TidPos == 4..35
PidPos == 37..52
TidBytes(h) == [i \in 1..TidLen |-> ByteAt(h, 2 + 2 * i)]
PidBytes(h) == [i \in 1..PidLen |-> ByteAt(h, 35 + 2 * i)]

LenBad(h) == Len(h) # 55
FormatBad(h) == \E i \in {3, 36, 53} : h[i] # 45
VersionBad(h) == h[1] # 48 \/ h[2] # 48
FlagBad(h) == ~(h[54] = 48 /\ h[55] \in {48, 49})
TidBad(h) == (\E i \in TidPos : ~IsHex(h[i])) \/ (\A i \in TidPos : h[i] = 48)
PidBad(h) == (\E i \in PidPos : ~IsHex(h[i])) \/ (\A i \in PidPos : h[i] = 48)

FirstFailure(h) ==
    IF LenBad(h) THEN ErrLength
    ELSE IF FormatBad(h) THEN ErrFormat
    ELSE IF VersionBad(h) THEN ErrVersion
    ELSE IF FlagBad(h) THEN ErrFlag
    ELSE IF TidBad(h) THEN ErrTraceId
    ELSE IF PidBad(h) THEN ErrParentId
    ELSE NoErr

\* the header passes the length, dash, version and flag checks
FramedOk(h) == ~LenBad(h) /\ ~FormatBad(h) /\ ~VersionBad(h) /\ ~FlagBad(h)

ValidArgs(a) ==
    /\ a.ver = 0
    /\ a.flg \in {0, 1}
    /\ Len(a.tid) = TidLen /\ a.tid # Zeros(TidLen)
    /\ Len(a.pid) = PidLen /\ a.pid # Zeros(PidLen)

\* C1: decoding what EncodeTraceparent(0, traceId, parentId, flags) made, for
\* a trace id and a parent id that are not all-zero and flags 0 or 1, returns
\* no error and exactly (0, traceId, parentId, flags).
C1_RoundTrip ==
    (pc = "decoded" /\ ValidArgs(args)) =>
        res = [ver |-> 0, tid |-> args.tid, pid |-> args.pid, flg |-> args.flg,
               err |-> NoErr]

\* a round trip of an id whose bytes are all 0xff, flags 1
C1_Witness ==
    /\ pc = "decoded"
    /\ ValidArgs(args)
    /\ args.tid = Ramp(TidLen, 255, 0)
    /\ args.flg = 1
    /\ res.err = NoErr
    /\ res.tid = args.tid

\* C2: the error DecodeTraceparent returns is that of the earliest failing
\* check in the order length, dash format, version, flag, trace id, parent
\* id (and nil when no check fails).
C2_FirstFailureWins ==
    pc = "decoded" => res.err = FirstFailure(header)

\* a 55-character header with its dashes in place and a bad version, a bad
\* flag, an all-zero trace id and a bad parent id at once: the version wins
C2_Witness ==
    /\ pc = "decoded"
    /\ ~LenBad(header) /\ ~FormatBad(header)
    /\ VersionBad(header) /\ FlagBad(header) /\ TidBad(header) /\ PidBad(header)
    /\ res.err = ErrVersion

\* C3: whatever the version, ids and flags, the encoded header has length 55,
\* '-' at Go indices 2, 35 and 52, and each input byte as two lower-case hex
\* characters, high nibble first, in its slot.
C3_EncodeLayout ==
    (pc = "encoded") =>
        /\ Len(header) = 55
        /\ header[3] = 45 /\ header[36] = 45 /\ header[53] = 45
        /\ IsHexOf(header[1], args.ver \div 16) /\ IsHexOf(header[2], args.ver % 16)
        /\ \A i \in 1..16 :
              /\ IsHexOf(header[2 + 2 * i], args.tid[i] \div 16)
              /\ IsHexOf(header[3 + 2 * i], args.tid[i] % 16)
        /\ \A i \in 1..8 :
              /\ IsHexOf(header[35 + 2 * i], args.pid[i] \div 16)
              /\ IsHexOf(header[36 + 2 * i], args.pid[i] % 16)
        /\ IsHexOf(header[54], args.flg \div 16) /\ IsHexOf(header[55], args.flg % 16)

\* an encode of version 0xff, all-zero ids and flags 0xff: nothing is validated
C3_Witness ==
    /\ pc = "encoded"
    /\ args.ver = 255 /\ args.flg = 255
    /\ args.tid = Zeros(TidLen) /\ args.pid = Zeros(PidLen)
    /\ Len(header) = 55

\* C4: in a header that passes the length, dash, version and flag checks, a
\* character outside 0-9a-f in a trace-id position gives "invalid trace id";
\* with a good trace id, one in a parent-id position gives "invalid parent
\* id"; and when every id character is in 0-9a-f and neither id is all-zero
\* the header is accepted with 0-9 read as 0..9 and a-f as 10..15.
C4_HexAlphabetExact ==
    (pc = "decoded" /\ FramedOk(header)) =>
        /\ (\E i \in TidPos : ~IsHex(header[i])) => res.err = ErrTraceId
        /\ (~TidBad(header) /\ \E i \in PidPos : ~IsHex(header[i]))
              => res.err = ErrParentId
        /\ (~TidBad(header) /\ ~PidBad(header)) =>
              /\ res.err = NoErr
              /\ res.tid = TidBytes(header)
              /\ res.pid = PidBytes(header)

\* an upper-case 'A' in a trace-id position of an otherwise valid header
C4_Witness ==
    /\ pc = "decoded"
    /\ FramedOk(header)
    /\ header[10] = 65
    /\ \A i \in TidPos \ {10} : IsHex(header[i])
    /\ ~PidBad(header)
    /\ res.err = ErrTraceId

\* C5 (as claimed): a failing DecodeTraceparent returns zero values for the
\* version, the trace id, the parent id and the flags.
C5_FailureReturnsZeroValues ==
    (pc = "decoded" /\ res.err # NoErr) =>
        /\ res.ver = 0
        /\ res.flg = 0
        /\ res.tid = Zeros(TidLen)
        /\ res.pid = Zeros(PidLen)

\* C6: for a header that passes the length, dash, version, flag and
\* alphabet checks, "invalid trace id" is returned exactly when the sixteen
\* trace-id bytes are all zero, and otherwise "invalid parent id" exactly
\* when the eight parent-id bytes are all zero; every successful decode
\* returns version 0, flags 0 or 1 and ids that are not all-zero.
C6_ZeroIdExact ==
    /\ (pc = "decoded" /\ FramedOk(header)
          /\ \A i \in TidPos \cup PidPos : IsHex(header[i])) =>
          /\ res.err = ErrTraceId <=> TidBytes(header) = Zeros(TidLen)
          /\ TidBytes(header) # Zeros(TidLen) =>
                (res.err = ErrParentId <=> PidBytes(header) = Zeros(PidLen))
    /\ (pc = "decoded" /\ res.err = NoErr) =>
          /\ res.ver = 0
          /\ res.flg \in {0, 1}
          /\ res.tid # Zeros(TidLen)
          /\ res.pid # Zeros(PidLen)

\* a trace id of sixteen 0x10 bytes (byte sum 256) and a parent id of eight
\* 0x20 bytes (byte sum 256) are accepted
C6_Witness ==
    /\ pc = "decoded"
    /\ FramedOk(header)
    /\ TidBytes(header) = Ramp(TidLen, 16, 0)
    /\ PidBytes(header) = Ramp(PidLen, 32, 0)
    /\ res.err = NoErr
    /\ res.tid = Ramp(TidLen, 16, 0)

\* C10: every header DecodeTraceparent accepts is, character for character,
\* what EncodeTraceparent makes of the values it returned.
C10_Canonical ==
    (pc = "decoded" /\ res.err = NoErr) =>
        EncodeTraceparent(res.ver, res.tid, res.pid, res.flg) = header

\* an accepted header that came off the wire, not out of EncodeTraceparent
C10_Witness ==
    /\ pc = "decoded"
    /\ args = NoArgs
    /\ res.err = NoErr
    /\ header \in Swept
    /\ header \notin SweepBases

---------------------------------------------------------------------------
(* What the claims about the coordinator are stated with.                  *)

IsPrefix(p, q) == Len(p) <= Len(q) /\ SubSeq(q, 1, Len(p)) = p

\* the ids of the events at the positions idx among events[1..n], in order
RECURSIVE IdsAt(_, _, _)
IdsAt(events, n, idx) ==
    IF n = 0 THEN <<>>
    ELSE IF n \in idx THEN Append(IdsAt(events, n - 1, idx), events[n].id)
    ELSE IdsAt(events, n - 1, idx)

Returns == {r \in 1..Len(hist) : hist[r].ev = "ret"}

CloseCallsAt == {k \in 1..Len(hist) : hist[k].ev = "call" /\ hist[k].op = "Close"}
Returned(id) == \E r \in 1..Len(hist) : hist[r].ev = "ret" /\ hist[r].id = id
ClosesInLog == {j \in 1..Len(log) : log[j].op = "Close"}

\* the spans caller c dispatched in calls that returned before hist[k]
DispatchedBefore(c, k) ==
    IdsAt(hist, k - 1, {r \in Returns : hist[r].op = "DispatchSpan" /\ hist[r].id[1] = c})
\* the spans of caller c the collector was fed before log[j]
FedBefore(c, j) ==
    IdsAt(log, j - 1, {i \in 1..Len(log) : log[i].op = "Feed" /\ log[i].id[1] = c})
FeedsOf(id) == {j \in 1..Len(log) : log[j].op = "Feed" /\ log[j].id = id}

\* the last option of a kind in opts, or none
LastOption(opts, kind, none) ==
    LET at == {i \in 1..Len(opts) : opts[i].kind = kind}
    IN IF at = {} THEN none
       ELSE opts[CHOOSE i \in at : \A j \in at : j <= i]

RandomizerSet(opts) == LastOption(opts, "rand", UseRandomizer(Nil)).rand # Nil
Thresholds(opts) == LastOption(opts, "batch", UseBatching(0, 0))

\* C7: when Close has been called once and has returned, the collector has
\* received Close exactly once, and the spans of every DispatchSpan call that
\* returned before Close was called were fed to the collector before that
\* Close, each exactly once and, caller by caller, in the order dispatched.
C7_FeedsBeforeClose ==
    \A k \in CloseCallsAt :
        (Cardinality(CloseCallsAt) = 1 /\ Returned(hist[k].id)) =>
            /\ Cardinality(ClosesInLog) = 1
            /\ \A j \in ClosesInLog :
                  \A c \in Callers :
                      /\ IsPrefix(DispatchedBefore(c, k), FedBefore(c, j))
                      /\ \A i \in 1..Len(DispatchedBefore(c, k)) :
                            Cardinality(FeedsOf(DispatchedBefore(c, k)[i])) = 1

\* both callers dispatched a span, then one of them closed, and Close returned
C7_Witness ==
    /\ Cardinality(CloseCallsAt) = 1
    /\ \A k \in CloseCallsAt :
          /\ Returned(hist[k].id)
          /\ \A c \in Callers : Len(DispatchedBefore(c, k)) >= 1
    /\ Cardinality(ClosesInLog) = 1

\* C8: NewTraceCore returns either a coordinator and no error, having
\* constructed exactly one collector from the exporters given and the
\* thresholds of the configuration, or no coordinator and an error, having
\* constructed none; and it fails exactly when no randomizer is set once all
\* options are applied and the default randomness source cannot be created.
C8_NewOutcomes ==
    newCall.called =>
        /\ \/ /\ trc # NilCore /\ newErr = Nil
              /\ made = <<[exporters |-> newCall.exporters,
                           batchTime |-> Thresholds(newCall.opts).batchTime,
                           batchCount |-> Thresholds(newCall.opts).batchCount]>>
              /\ trc.collector = 1
              /\ trc.exporters = newCall.exporters
           \/ /\ trc = NilCore /\ newErr # Nil
              /\ made = <<>>
        /\ newErr # Nil <=> (~RandomizerSet(newCall.opts) /\ ~newCall.sourceOk)

\* a randomizer set and then unset again, thresholds set twice, and the
\* default source failing: construction fails and no collector is made
C8_WitnessFailure ==
    /\ newCall.called
    /\ newCall.opts = <<UseRandomizer("r1"), UseRandomizer(Nil)>>
    /\ ~newCall.sourceOk
    /\ newErr # Nil
    /\ made = <<>>

\* C9: DispatchSpan and Close are forwarded whatever came before: the calls
\* the collector has received are exactly the calls that have returned, one
\* Feed for each DispatchSpan and one Close for each Close, in the order they
\* returned, and no call changes the coordinator's fields.
C9_InvForwarded ==
    /\ Len(log) = Cardinality(Returns)
    /\ IdsAt(log, Len(log), 1..Len(log)) = IdsAt(hist, Len(hist), Returns)
    /\ \A j \in 1..Len(log) :
          /\ log[j].collector = trc.collector
          /\ \E r \in 1..Len(hist) :
                /\ hist[r].ev = "ret" /\ hist[r].id = log[j].id
                /\ log[j].op = (IF hist[r].op = "DispatchSpan" THEN "Feed" ELSE "Close")

C9_ForwardsUnguarded ==
    /\ []C9_InvForwarded
    /\ [][newCall.called => trc' = trc]_vars

\* a span dispatched after Close, and Close called a second time, all forwarded
C9_Witness ==
    /\ \E j \in 1..Len(log) :
          /\ log[j].op = "Close"
          /\ \E i \in (j + 1)..Len(log) : log[i].op = "Feed"
          /\ \E i \in (j + 1)..Len(log) : log[i].op = "Close"
    /\ C9_InvForwarded

====
